---- MODULE Spec2Model ----
(***************************************************************************)
(* Tic-tac-toe backend: the game engine (game_logic.py) and the move       *)
(* protocol of the HTTP handlers start_game and make_move (main.py).       *)
(*                                                                         *)
(* Three specifications:                                                   *)
(*   Spec      start_game and make_move, each request handled atomically   *)
(*   SpecConc  make_move split at its database read and its commit, two    *)
(*             requests in flight                                          *)
(*   SpecFn    the pure functions of game_logic.py on every 3x3 board      *)
(***************************************************************************)
EXTENDS Integers, Sequences, FiniteSets, TLC

VARIABLES games, resp, reqs, fboard, fout

vars == <<games, resp, reqs, fboard, fout>>

----------------------------------------------------------------------------
(* Bounds *)

\* clients send the cells 0 .. MaxInCell, counted row-major, and two
\* out-of-range cells; in Spec and in SpecConc
MaxInCell == 5
MaxConcCell == 2
\* longest move list a request may have read in SpecConc
MaxConcMoves == 2

\* user ids of the registered users
Users == {1, 2}
\* ids of game rows, and the ids clients send that no row has
GameIds == {1}
MissingGameIds == {2}
\* request slots in flight in SpecConc
Reqs == {1, 2}

OutOfRange == {<<3, 0>>, <<0, -1>>}
InCells == {<<k \div 3, k % 3>> : k \in 0 .. MaxInCell} \cup OutOfRange
ConcCells == {<<k \div 3, k % 3>> : k \in 0 .. MaxConcCell} \cup OutOfRange

----------------------------------------------------------------------------
(* game_logic.py *)

None == "None"
\* a user id column that is NULL; ids of users start at 1
NoUser == 0
Symbols == {"X", "O"}
Idx == 0 .. 2
Boards == [Idx -> [Idx -> Symbols \cup {None}]]

empty_board == [r \in Idx |-> [c \in Idx |-> None]]

\* validate_move with the lower bounds of its range test left out; a
\* negative index reads the list from its end
validate_move_negative(board, row, col) ==
    IF row < 3 /\ col < 3
    THEN board[row % 3][col % 3] = None
    ELSE FALSE

\* validate_move without the occupancy test
validate_move_inrange(board, row, col) ==
    0 <= row /\ row < 3 /\ 0 <= col /\ col < 3

validate_move(board, row, col) ==
    IF 0 <= row /\ row < 3 /\ 0 <= col /\ col < 3
    THEN board[row][col] = None
    ELSE FALSE

apply_move(board, row, col, symbol) ==
    [board EXCEPT ![row][col] = symbol]

\* the list "lines" with the main diagonal appended twice and the
\* anti-diagonal never
winner_lines_dupdiag(board) ==
    << <<board[0][0], board[0][1], board[0][2]>>,
       <<board[0][0], board[1][0], board[2][0]>>,
       <<board[1][0], board[1][1], board[1][2]>>,
       <<board[0][1], board[1][1], board[2][1]>>,
       <<board[2][0], board[2][1], board[2][2]>>,
       <<board[0][2], board[1][2], board[2][2]>>,
       <<board[0][0], board[1][1], board[2][2]>>,
       <<board[0][0], board[1][1], board[2][2]>> >>

\* the list "lines" built by check_winner: row i, then column i, for
\* i = 0, 1, 2, then the two diagonals
winner_lines(board) ==
    << <<board[0][0], board[0][1], board[0][2]>>,
       <<board[0][0], board[1][0], board[2][0]>>,
       <<board[1][0], board[1][1], board[1][2]>>,
       <<board[0][1], board[1][1], board[2][1]>>,
       <<board[2][0], board[2][1], board[2][2]>>,
       <<board[0][2], board[1][2], board[2][2]>>,
       <<board[0][0], board[1][1], board[2][2]>>,
       <<board[0][2], board[1][1], board[2][0]>> >>

RECURSIVE scan_lines(_, _)
scan_lines(lines, i) ==
    IF i > Len(lines) THEN None
    ELSE IF lines[i][1] # None /\ lines[i][1] = lines[i][2]
                            /\ lines[i][2] = lines[i][3]
         THEN lines[i][1]
         ELSE scan_lines(lines, i + 1)

check_winner(board) == scan_lines(winner_lines(board), 1)

is_board_full(board) ==
    \A r \in Idx : \A c \in Idx : board[r][c] # None

\* next_turn with both branches returning O
next_turn_stuck(current) == IF current = "X" THEN "O" ELSE "O"

next_turn(current) == IF current = "X" THEN "O" ELSE "X"

\* one of the two scanning loops of best_ai_move, from cell k (row-major)
\* on: the first empty cell where placing symbol makes check_winner
\* return symbol, or NoCell
NoCell == <<-1, -1>>

\* the scanning loop without the test that the cell is empty
RECURSIVE scan_cells_occupied(_, _, _)
scan_cells_occupied(board, symbol, k) ==
    IF k > 8 THEN NoCell
    ELSE LET r == k \div 3
             c == k % 3
         IN IF check_winner([board EXCEPT ![r][c] = symbol]) = symbol
            THEN <<r, c>>
            ELSE scan_cells_occupied(board, symbol, k + 1)

RECURSIVE scan_cells(_, _, _)
scan_cells(board, symbol, k) ==
    IF k > 8 THEN NoCell
    ELSE LET r == k \div 3
             c == k % 3
         IN IF board[r][c] = None
               /\ check_winner([board EXCEPT ![r][c] = symbol]) = symbol
            THEN <<r, c>>
            ELSE scan_cells(board, symbol, k + 1)

\* the list "empty" built without its filter
empty_cells_unfiltered(board) == Idx \X Idx

empty_cells(board) ==
    {p \in Idx \X Idx : board[p[1]][p[2]] = None}

\* the set of outcomes of best_ai_move: cells <<r, c>>, or the exception
NoMovesLeft == <<"No moves left">>

\* best_ai_move with the two loops swapped: block before win
best_ai_move_blockfirst(board, ai_symbol, user_symbol) ==
    IF scan_cells(board, user_symbol, 0) # NoCell
    THEN {scan_cells(board, user_symbol, 0)}
    ELSE IF scan_cells(board, ai_symbol, 0) # NoCell
    THEN {scan_cells(board, ai_symbol, 0)}
    ELSE IF empty_cells(board) # {}
    THEN empty_cells(board)
    ELSE {NoMovesLeft}

\* best_ai_move without the blocking loop
best_ai_move_noblock(board, ai_symbol, user_symbol) ==
    IF scan_cells(board, ai_symbol, 0) # NoCell
    THEN {scan_cells(board, ai_symbol, 0)}
    ELSE IF empty_cells(board) # {}
    THEN empty_cells(board)
    ELSE {NoMovesLeft}

best_ai_move(board, ai_symbol, user_symbol) ==
    IF scan_cells(board, ai_symbol, 0) # NoCell
    THEN {scan_cells(board, ai_symbol, 0)}
    ELSE IF scan_cells(board, user_symbol, 0) # NoCell
    THEN {scan_cells(board, user_symbol, 0)}
    ELSE IF empty_cells(board) # {}
    THEN empty_cells(board)
    ELSE {NoMovesLeft}

----------------------------------------------------------------------------
(* main.py: the games table, start_game, make_move *)

Game(user_x_id, user_o_id, moves, winner, is_pvp) ==
    [user_x_id |-> user_x_id, user_o_id |-> user_o_id, moves |-> moves,
     winner |-> winner, is_pvp |-> is_pvp]

Move(row, col, player) == [row |-> row, col |-> col, player |-> player]

GameState(board, current_turn, is_over, winner) ==
    [status |-> 200, detail |-> "OK", board |-> board,
     current_turn |-> current_turn, is_over |-> is_over, winner |-> winner]

HTTPException(status_code, detail) ==
    [status |-> status_code, detail |-> detail, board |-> empty_board,
     current_turn |-> None, is_over |-> FALSE, winner |-> None]

NoResp == HTTPException(0, "none")

\* the "Rebuild board" loop of make_move
RECURSIVE rebuild(_, _, _, _)
rebuild(moves, i, board, turn) ==
    IF i > Len(moves) THEN [board |-> board, turn |-> turn]
    ELSE rebuild(moves, i + 1,
                 apply_move(board, moves[i].row, moves[i].col, moves[i].player),
                 next_turn(turn))

rebuild_board(moves) == rebuild(moves, 1, empty_board, "X").board
rebuild_turn(moves) == rebuild(moves, 1, empty_board, "X").turn

\* make_move after the game row was loaded: the set of its outcomes, one
\* per result of the AI's random choice.  An outcome is the response, the
\* row as it is committed (a raised exception commits nothing), and the
\* call of best_ai_move the request made, if it made one.
NoAiCall == [called |-> FALSE, board |-> empty_board]
AiCall(board) == [called |-> TRUE, board |-> board]

Outcome(response, game, ai_call) ==
    [response |-> response, game |-> game, ai_call |-> ai_call]

\* the "Check if this is user's turn" condition with its first comparison
\* inverted
not_your_turn_inverted(game, turn, current_user) ==
    \/ (turn = "X" /\ game.user_x_id = current_user)
    \/ (turn = "O" /\ game.user_o_id # NoUser /\ game.user_o_id # current_user)

\* the "Check if this is user's turn" condition (lines 167-168)
not_your_turn(game, turn, current_user) ==
    \/ (turn = "X" /\ game.user_x_id # current_user)
    \/ (turn = "O" /\ game.user_o_id # NoUser /\ game.user_o_id # current_user)

\* the "let AI play" condition without its test of is_over
ai_plays_when_over(game, is_over, turn) ==
    ~game.is_pvp /\ next_turn(turn) = "O"

\* the "If vs AI and not over, let AI play" condition (line 178)
ai_plays(game, is_over, turn) ==
    ~game.is_pvp /\ ~is_over /\ next_turn(turn) = "O"

after_ai(game, moves1, board1, turn, cell) ==
    IF cell = NoMovesLeft
    THEN Outcome(HTTPException(500, "No moves left"), game, AiCall(board1))
    ELSE LET moves2 == Append(moves1, Move(cell[1], cell[2], "O"))
             board2 == apply_move(board1, cell[1], cell[2], "O")
             winner == check_winner(board2)
             is_over == winner # None \/ is_board_full(board2)
         IN Outcome(GameState(board2,
                              IF ~is_over THEN next_turn(turn) ELSE turn,
                              is_over, winner),
                    [game EXCEPT !.moves = moves2, !.winner = winner],
                    AiCall(board1))

make_move(game, current_user, row, col) ==
    LET moves == game.moves
        board == rebuild_board(moves)
        turn == rebuild_turn(moves)
    IN IF not_your_turn(game, turn, current_user)
       THEN {Outcome(HTTPException(403, "Not your turn"), game, NoAiCall)}
       ELSE IF ~validate_move(board, row, col)
       THEN {Outcome(HTTPException(400, "Invalid move"), game, NoAiCall)}
       ELSE LET moves1 == Append(moves, Move(row, col, turn))
                board1 == apply_move(board, row, col, turn)
                winner == check_winner(board1)
                is_over == winner # None \/ is_board_full(board1)
            IN IF ai_plays(game, is_over, turn)
               THEN {after_ai(game, moves1, board1, turn, cell) :
                        cell \in best_ai_move(board1, "O", "X")}
               ELSE {Outcome(GameState(board1,
                                       IF ~is_over THEN next_turn(turn)
                                                   ELSE turn,
                                       is_over, winner),
                             [game EXCEPT !.moves = moves1,
                                          !.winner = winner],
                             NoAiCall)}

\* the games table maps the ids of its rows to the rows
NextGameId == Cardinality(DOMAIN games) + 1

StartGame(current_user, pvp) ==
    /\ NextGameId \in GameIds
    /\ games' = [id \in DOMAIN games \cup {NextGameId} |->
                    IF id = NextGameId
                    THEN Game(current_user, NoUser, <<>>, None, pvp)
                    ELSE games[id]]
    /\ resp' = GameState(empty_board, "X", FALSE, None)
    /\ UNCHANGED <<reqs, fboard, fout>>

\* make_move on a game id no row has
MakeMoveNotFound(game_id) ==
    /\ game_id \notin DOMAIN games
    /\ resp' = HTTPException(404, "Game not found")
    /\ UNCHANGED <<games, reqs, fboard, fout>>

Idle == [pc |-> "idle", game_id |-> 0,
         game |-> Game(NoUser, NoUser, <<>>, None, FALSE)]

\* game.moves = moves; game.winner = winner; db.commit(): the row takes
\* the values assigned to it.  A raised exception skips these lines.
commit(table, game_id, out) ==
    IF out.response.status = 200
    THEN [table EXCEPT ![game_id].moves = out.game.moves,
                       ![game_id].winner = out.game.winner]
    ELSE table

\* make_move handled without any other request in between
MakeMove(game_id, current_user, row, col) ==
    /\ game_id \in DOMAIN games
    /\ \E out \in make_move(games[game_id], current_user, row, col) :
          /\ games' = commit(games, game_id, out)
          /\ resp' = out.response
    /\ UNCHANGED <<reqs, fboard, fout>>

\* make_move in two steps, other requests in between: the query of the
\* game row (line 156), then the rest of the handler on the row as loaded.
\* The request's user and cell do not depend on the state; they are drawn
\* where the handler first uses them.
MakeMoveRead(q, game_id) ==
    /\ reqs[q].pc = "idle"
    /\ game_id \in DOMAIN games
    /\ Len(games[game_id].moves) < MaxConcMoves
    /\ reqs' = [reqs EXCEPT ![q] = [pc |-> "loaded", game_id |-> game_id,
                                    game |-> games[game_id]]]
    /\ UNCHANGED <<games, resp, fboard, fout>>

MakeMoveCommit(q, current_user, row, col) ==
    /\ reqs[q].pc = "loaded"
    /\ \E out \in make_move(reqs[q].game, current_user, row, col) :
          /\ games' = commit(games, reqs[q].game_id, out)
          /\ resp' = out.response
    /\ reqs' = [reqs EXCEPT ![q] = Idle]
    /\ UNCHANGED <<fboard, fout>>

\* the last result of a game_logic.py function applied to fboard
FnResult(op, ai, result) == [op |-> op, ai |-> ai, result |-> result]

Init ==
    /\ games = <<>>
    /\ resp = NoResp
    /\ reqs = [q \in Reqs |-> Idle]
    /\ fboard = empty_board
    /\ fout = FnResult("none", None, <<>>)

Next ==
    \/ \E u \in Users : \E pvp \in BOOLEAN : StartGame(u, pvp)
    \/ \E g \in GameIds \cup MissingGameIds : MakeMoveNotFound(g)
    \/ \E g \in GameIds : \E u \in Users : \E p \in InCells :
          MakeMove(g, u, p[1], p[2])

Spec == Init /\ [][Next]_vars

NextConc ==
    \/ \E u \in Users : \E pvp \in BOOLEAN : StartGame(u, pvp)
    \/ \E g \in GameIds \cup MissingGameIds : MakeMoveNotFound(g)
    \/ \E q \in Reqs : \E g \in GameIds : MakeMoveRead(q, g)
    \/ \E q \in Reqs : \E u \in Users : \E p \in ConcCells :
          MakeMoveCommit(q, u, p[1], p[2])

SpecConc == Init /\ [][NextConc]_vars

----------------------------------------------------------------------------
(* The functions of game_logic.py applied to an arbitrary board *)

FnCheckWinner ==
    /\ fout' = FnResult("check_winner", None, <<check_winner(fboard)>>)
    /\ UNCHANGED <<games, resp, reqs, fboard>>

FnBestAiMove(ai_symbol) ==
    /\ \E user_symbol \in Symbols \ {ai_symbol} :
         \E res \in best_ai_move(fboard, ai_symbol, user_symbol) :
            fout' = FnResult("best_ai_move", ai_symbol, res)
    /\ UNCHANGED <<games, resp, reqs, fboard>>

InitFn ==
    /\ games = <<>>
    /\ resp = NoResp
    /\ reqs = [q \in Reqs |-> Idle]
    /\ fboard \in Boards
    /\ fout = FnResult("none", None, <<>>)

NextFn ==
    \/ FnCheckWinner
    \/ \E s \in Symbols : FnBestAiMove(s)

SpecFn == InitFn /\ [][NextFn]_vars

----------------------------------------------------------------------------
(* Vocabulary of the properties, stated on cells and not through the       *)
(* functions of game_logic.py                                              *)

Cells == Idx \X Idx
At(board, p) == board[p[1]][p[2]]

RowLine(r) == {<<r, c>> : c \in Idx}
ColLine(c) == {<<r, c>> : r \in Idx}
DiagLine == {<<i, i>> : i \in Idx}
AntiLine == {<<i, 2 - i>> : i \in Idx}
AllLines == {RowLine(r) : r \in Idx} \cup {ColLine(c) : c \in Idx}
               \cup {DiagLine, AntiLine}

Complete(board, line, s) == \A p \in line : At(board, p) = s
HasLine(board, s) == \E line \in AllLines : Complete(board, line, s)
NoLine(board) == \A s \in Symbols : ~HasLine(board, s)
EmptyCells(board) == {p \in Cells : At(board, p) = None}
IsFull(board) == EmptyCells(board) = {}

\* the board a move list stands for: the last symbol written to each cell
LastAt(moves, p) ==
    LET hits == {i \in 1 .. Len(moves) : <<moves[i].row, moves[i].col>> = p}
    IN IF hits = {} THEN None
       ELSE moves[CHOOSE i \in hits : \A j \in hits : j <= i].player
BoardOf(moves) == [r \in Idx |-> [c \in Idx |-> LastAt(moves, <<r, c>>)]]

IsPrefix(s, t) == Len(s) <= Len(t) /\ SubSeq(t, 1, Len(s)) = s
TurnByParity(moves) == IF Len(moves) % 2 = 0 THEN "X" ELSE "O"
\* the cell is out of range, or some move of the list occupies it
InvalidCell(moves, row, col) ==
    \/ row \notin Idx
    \/ col \notin Idx
    \/ \E i \in 1 .. Len(moves) : moves[i].row = row /\ moves[i].col = col

----------------------------------------------------------------------------
(* C1: every board reconstructed from a persisted move list has winning    *)
(* lines of at most one symbol: never a line all X and another all O.      *)
(* The handler accepts moves on a game that is already won, so the loser   *)
(* can complete a line too.                                                *)
C1_OneWinningSymbol ==
    \A g \in DOMAIN games :
        ~(HasLine(BoardOf(games[g].moves), "X")
          /\ HasLine(BoardOf(games[g].moves), "O"))

(* C2: the persisted move list is append-only: across every step the list  *)
(* persisted before is a prefix of the list persisted after, also when two *)
(* make_move requests on the same game interleave.                         *)
C2_AppendOnly ==
    [][\A g \in DOMAIN games : IsPrefix(games[g].moves, games'[g].moves)]_vars

(* C3: a make_move response with is_over = false reports as current_turn   *)
(* the symbol of the next accepted move: X if the persisted move list has  *)
(* even length, O otherwise.                                               *)
C3_ReturnedTurnIsNext ==
    \A g \in DOMAIN games :
        (resp.status = 200 /\ ~resp.is_over)
            => resp.current_turn = TurnByParity(games[g].moves)

(* C4: every persisted move list alternates strictly starting with X (the  *)
(* move at 0-based index i is X's iff i is even), and the turn make_move   *)
(* derives by replay is X iff the list has even length.                    *)
C4_Alternation ==
    \A g \in DOMAIN games :
        LET moves == games[g].moves
        IN /\ \A i \in 1 .. Len(moves) :
                 moves[i].player = IF (i - 1) % 2 = 0 THEN "X" ELSE "O"
           /\ (rebuild_turn(moves) = "X") <=> (Len(moves) % 2 = 0)

\* a game against the AI that went on after the AI had won: the user's
\* X move on the won board got no AI reply, the next move was made as O
C4_Witness ==
    \E g \in DOMAIN games :
        /\ ~games[g].is_pvp
        /\ Len(games[g].moves) = 8
        /\ games[g].winner = "O"

(* C5, as stated: a make_move request whose cell is out of range or        *)
(* occupied is rejected with Invalid move and leaves the persisted move    *)
(* list and winner as they were.  Stated of every request the handler can  *)
(* receive in the current state.                                           *)
C5_RejectedAsInvalidMove ==
    \A g \in DOMAIN games : \A u \in Users : \A p \in InCells :
        InvalidCell(games[g].moves, p[1], p[2])
        => \A out \in make_move(games[g], u, p[1], p[2]) :
              /\ out.response.status = 400
              /\ out.response.detail = "Invalid move"
              /\ commit(games, g, out) = games

(* C5, amended: such a request is rejected and leaves the persisted move   *)
(* list and winner as they were (so no AI move is made either); the        *)
(* rejection is Invalid move when it is the caller's turn and Not your     *)
(* turn when it is not, the turn being checked first.                      *)
CallersTurn(game, u) ==
    \/ TurnByParity(game.moves) = "X" /\ game.user_x_id = u
    \/ TurnByParity(game.moves) = "O" /\ game.user_o_id \in {NoUser, u}

C5_InvalidCellRejected ==
    \A g \in DOMAIN games : \A u \in Users : \A p \in InCells :
        InvalidCell(games[g].moves, p[1], p[2])
        => \A out \in make_move(games[g], u, p[1], p[2]) :
              /\ commit(games, g, out) = games
              /\ IF CallersTurn(games[g], u)
                 THEN /\ out.response.status = 400
                      /\ out.response.detail = "Invalid move"
                 ELSE /\ out.response.status = 403
                      /\ out.response.detail = "Not your turn"

\* an occupied cell was refused on a game with moves of the user and the AI
C5_Witness ==
    \E g \in DOMAIN games :
        /\ resp.status = 400
        /\ Len(games[g].moves) >= 2
        /\ ~games[g].is_pvp

----------------------------------------------------------------------------
(* Properties of check_winner and best_ai_move, on every board (SpecFn)    *)

\* the 8 lines in the order rows top-to-bottom, columns left-to-right,
\* main diagonal, anti-diagonal
OrderedLines ==
    <<RowLine(0), RowLine(1), RowLine(2), ColLine(0), ColLine(1), ColLine(2),
      DiagLine, AntiLine>>

CompleteLines(board) ==
    {i \in 1 .. 8 : \E s \in Symbols : Complete(board, OrderedLines[i], s)}

FirstCompleteSymbol(board) ==
    IF CompleteLines(board) = {} THEN None
    ELSE LET first == CHOOSE i \in CompleteLines(board) :
                         \A j \in CompleteLines(board) : i <= j
         IN CHOOSE s \in Symbols : Complete(board, OrderedLines[first], s)

\* the empty cells where placing s completes a line of s
CompletingCells(board, s) ==
    {p \in EmptyCells(board) :
        \E line \in AllLines :
            p \in line /\ \A q \in line \ {p} : At(board, q) = s}

RowMajor(p) == 3 * p[1] + p[2]
RowMajorLowest(S) == CHOOSE p \in S : \A q \in S : RowMajor(p) <= RowMajor(q)
Opponent(s) == CHOOSE t \in Symbols : t # s

AiReturned == fout.op = "best_ai_move"

(* C6: on every board over {empty, X, O}^9 check_winner returns the symbol *)
(* of the first completed line in the order rows top-to-bottom, columns    *)
(* left-to-right, main diagonal, anti-diagonal, and returns no winner iff  *)
(* none of the 8 lines holds three equal symbols.                          *)
C6_FirstCompletedLine ==
    fout.op = "check_winner"
    => /\ fout.result[1] = FirstCompleteSymbol(fboard)
       /\ (fout.result[1] = None) <=> NoLine(fboard)

\* a board with completed lines of both symbols, the earlier one returned
C6_Witness ==
    /\ fout.op = "check_winner"
    /\ HasLine(fboard, "X")
    /\ HasLine(fboard, "O")
    /\ Complete(fboard, ColLine(0), "O")
    /\ fout.result[1] = "O"

(* C7: on a board without a completed line that has an empty cell where    *)
(* placing ai_symbol completes a line, best_ai_move returns the row-major  *)
(* lowest such cell, also when a blocking cell exists.                     *)
C7_WinFirst ==
    (/\ AiReturned
     /\ NoLine(fboard)
     /\ CompletingCells(fboard, fout.ai) # {})
    => fout.result = RowMajorLowest(CompletingCells(fboard, fout.ai))

\* two winning cells and an earlier blocking cell
C7_Witness ==
    /\ AiReturned
    /\ NoLine(fboard)
    /\ Cardinality(CompletingCells(fboard, fout.ai)) >= 2
    /\ CompletingCells(fboard, Opponent(fout.ai)) # {}
    /\ RowMajor(RowMajorLowest(CompletingCells(fboard, Opponent(fout.ai))))
          < RowMajor(fout.result)

(* C8: on a board without a completed line where no empty cell wins for    *)
(* ai_symbol but some empty cell would complete a line of the opponent,    *)
(* best_ai_move returns the row-major lowest such blocking cell; and on    *)
(* [[X,X,_],[O,O,_],[_,_,_]] with AI = O the result is not drawn at random *)
(* (it is the single cell (1,2)).                                          *)
ExampleBoard ==
    [r \in Idx |-> [c \in Idx |->
        IF r = 0 /\ c < 2 THEN "X" ELSE IF r = 1 /\ c < 2 THEN "O" ELSE None]]

C8_BlockSecond ==
    /\ (/\ AiReturned
        /\ NoLine(fboard)
        /\ CompletingCells(fboard, fout.ai) = {}
        /\ CompletingCells(fboard, Opponent(fout.ai)) # {})
       => fout.result
             = RowMajorLowest(CompletingCells(fboard, Opponent(fout.ai)))
    /\ (AiReturned /\ fboard = ExampleBoard /\ fout.ai = "O")
       => fout.result = <<1, 2>>

\* two blocking cells, neither the first empty cell of the board
C8_Witness ==
    /\ AiReturned
    /\ NoLine(fboard)
    /\ CompletingCells(fboard, fout.ai) = {}
    /\ Cardinality(CompletingCells(fboard, Opponent(fout.ai))) >= 2
    /\ fout.result # RowMajorLowest(EmptyCells(fboard))
    /\ fout.result \in Cells

(* C9, as stated: on every board with an empty cell every result of        *)
(* best_ai_move is an in-range cell that is empty on the board; and when   *)
(* neither a winning nor a blocking cell exists, every empty cell is a     *)
(* possible result.                                                        *)
PossibleResult(ai, p) == p \in best_ai_move(fboard, ai, Opponent(ai))

C9_AnyEmptyCell ==
    /\ (AiReturned /\ ~IsFull(fboard))
       => fout.result \in EmptyCells(fboard)
    /\ \A ai \in Symbols :
          (/\ AiReturned /\ fout.ai = ai
           /\ ~IsFull(fboard)
           /\ CompletingCells(fboard, ai) = {}
           /\ CompletingCells(fboard, Opponent(ai)) = {})
          => \A p \in EmptyCells(fboard) : PossibleResult(ai, p)

(* C9, amended: on every board with an empty cell every result of          *)
(* best_ai_move is an in-range cell that is empty on the board; and when   *)
(* the board has no completed line and neither a winning nor a blocking    *)
(* cell exists, every empty cell is a possible result.                     *)
C9_AnyEmptyCellNoLine ==
    /\ (AiReturned /\ ~IsFull(fboard))
       => fout.result \in EmptyCells(fboard)
    /\ \A ai \in Symbols :
          (/\ AiReturned /\ fout.ai = ai
           /\ ~IsFull(fboard)
           /\ NoLine(fboard)
           /\ CompletingCells(fboard, ai) = {}
           /\ CompletingCells(fboard, Opponent(ai)) = {})
          => \A p \in EmptyCells(fboard) : PossibleResult(ai, p)

\* the random choice returned a cell that is not the first empty one
C9_Witness ==
    /\ AiReturned
    /\ NoLine(fboard)
    /\ CompletingCells(fboard, "X") = {}
    /\ CompletingCells(fboard, "O") = {}
    /\ Cardinality(EmptyCells(fboard)) >= 3
    /\ fout.result # RowMajorLowest(EmptyCells(fboard))
    /\ fout.result \in EmptyCells(fboard)

(* C10: on every fully occupied board, with or without a completed line    *)
(* and for either ai_symbol, best_ai_move ends in the no-legal-moves error *)
(* and returns no cell.                                                    *)
C10_FullBoardRaises ==
    (AiReturned /\ IsFull(fboard))
    => (fout.result = NoMovesLeft /\ fout.result \notin Cells)

\* a full board holding a completed line of the AI's symbol
C10_Witness ==
    /\ AiReturned
    /\ IsFull(fboard)
    /\ HasLine(fboard, fout.ai)
    /\ fout.result = NoMovesLeft

----------------------------------------------------------------------------
(* Properties of make_move, stated of every request the handler can        *)
(* receive in a reachable state                                            *)

(* C11: in a game against the AI, make_move invokes best_ai_move only on a *)
(* board with at least one empty cell and no completed line, so no request *)
(* ends in the no-legal-moves error.                                       *)
C11_AiCalledOnOpenBoard ==
    /\ resp.status # 500
    /\ \A g \in DOMAIN games : \A u \in Users : \A p \in InCells :
          \A out \in make_move(games[g], u, p[1], p[2]) :
             /\ out.response.status # 500
             /\ out.ai_call.called
                => /\ ~games[g].is_pvp
                   /\ EmptyCells(out.ai_call.board) # {}
                   /\ NoLine(out.ai_call.board)

\* the AI has answered on a board with two empty cells, and nobody has won
C11_Witness ==
    \E g \in DOMAIN games :
        /\ ~games[g].is_pvp
        /\ Len(games[g].moves) = 8
        /\ games[g].winner = None
        /\ resp.status = 200
        /\ ~resp.is_over

----------------------------------------------------------------------------
(* apply_move and validate_move applied to an arbitrary board (SpecBoard)  *)

\* the coordinates validate_move is called with
Coords == -1 .. 3

\* the caller's board after apply_move, had line 18 copied the outer list
\* only: the write of line 19 lands in a row shared with the caller
apply_move_input_shared(board, row, col, symbol) ==
    [board EXCEPT ![row][col] = symbol]

\* the caller's board after apply_move: line 18 copies every row, the
\* write of line 19 goes to a copy
apply_move_input(board, row, col, symbol) == board

ApplyArgs(board, row, col, symbol) ==
    [board |-> board, row |-> row, col |-> col, symbol |-> symbol]

\* apply_move on an in-range cell, empty or not; fboard is the caller's
\* board, fout holds the arguments and the returned board
FnApplyMove(row, col, symbol) ==
    /\ fout' = FnResult("apply_move", ApplyArgs(fboard, row, col, symbol),
                        apply_move(fboard, row, col, symbol))
    /\ fboard' = apply_move_input(fboard, row, col, symbol)
    /\ UNCHANGED <<games, resp, reqs>>

FnValidateMove(row, col) ==
    /\ fout' = FnResult("validate_move", <<row, col>>,
                        <<validate_move(fboard, row, col)>>)
    /\ UNCHANGED <<games, resp, reqs, fboard>>

NextBoard ==
    \/ \E r \in Idx : \E c \in Idx : \E s \in Symbols : FnApplyMove(r, c, s)
    \/ \E r \in Coords : \E c \in Coords : FnValidateMove(r, c)

SpecBoard == InitFn /\ [][NextBoard]_vars

(* C12: for every board B, in-range empty cell (r, c) and symbol S,        *)
(* apply_move(B, r, c, S) returns a board equal to B at every cell except  *)
(* (r, c), which holds S; B is unchanged after the call; and validate_move *)
(* on the result at (r, c) is false.                                       *)
C12_ApplyMoveFrame ==
    (/\ fout.op = "apply_move"
     /\ At(fout.ai.board, <<fout.ai.row, fout.ai.col>>) = None)
    => /\ \A p \in Cells :
             At(fout.result, p) = IF p = <<fout.ai.row, fout.ai.col>>
                                  THEN fout.ai.symbol
                                  ELSE At(fout.ai.board, p)
       /\ fboard = fout.ai.board
       /\ ~validate_move(fout.result, fout.ai.row, fout.ai.col)

\* O placed on an empty cell of a board that holds other symbols
C12_Witness ==
    /\ fout.op = "apply_move"
    /\ At(fout.ai.board, <<fout.ai.row, fout.ai.col>>) = None
    /\ fout.ai.symbol = "O"
    /\ Cardinality(EmptyCells(fout.ai.board)) = 4
    /\ At(fout.result, <<fout.ai.row, fout.ai.col>>) = "O"

(* C13: validate_move returns true iff 0 <= row < 3 and 0 <= col < 3 and   *)
(* the cell is empty; for every out-of-range row or col it returns false   *)
(* whatever the board holds.                                               *)
C13_ValidateMove ==
    fout.op = "validate_move"
    => LET row == fout.ai[1]
           col == fout.ai[2]
       IN /\ fout.result[1] \in BOOLEAN
          /\ fout.result[1] <=> (/\ 0 <= row /\ row < 3
                                 /\ 0 <= col /\ col < 3
                                 /\ At(fboard, <<row, col>>) = None)
          /\ (row \notin Idx \/ col \notin Idx) => fout.result[1] = FALSE

\* a negative row on a board whose last row has an empty cell in that column
C13_Witness ==
    /\ fout.op = "validate_move"
    /\ fout.ai = <<-1, 1>>
    /\ At(fboard, <<2, 1>>) = None
    /\ fout.result[1] = FALSE

----------------------------------------------------------------------------
(* Properties of the persisted game row over time                          *)

NoCellTwice(moves) ==
    \A i \in 1 .. Len(moves) : \A j \in 1 .. Len(moves) :
        (moves[i].row = moves[j].row /\ moves[i].col = moves[j].col) => i = j

KeepsCells(before, after) ==
    \A p \in Cells :
        At(BoardOf(before), p) # None
        => At(BoardOf(after), p) = At(BoardOf(before), p)

AllRejected(g) ==
    \A u \in Users : \A p \in InCells :
        \A out \in make_move(games[g], u, p[1], p[2]) :
            out.response.status # 200 /\ commit(games, g, out) = games

(* C14: no two moves of a persisted move list target the same cell, so a   *)
(* cell once occupied keeps its symbol in every later reconstructed board, *)
(* the list never has more than 9 moves, and once it has 9 every further   *)
(* make_move on the game is rejected.                                      *)
C14_CellsKeepTheirSymbol ==
    [][\A g \in DOMAIN games :
          /\ NoCellTwice(games'[g].moves)
          /\ Len(games'[g].moves) <= 9
          /\ KeepsCells(games[g].moves, games'[g].moves)]_vars

\* the parts of C14 that are state invariants; they hold under Spec and
\* under SpecConc
C14_NoCellTwice ==
    \A g \in DOMAIN games :
        /\ NoCellTwice(games[g].moves)
        /\ Len(games[g].moves) <= 9
        /\ Len(games[g].moves) = 9 => AllRejected(g)

C14_FullList ==
    \E g \in DOMAIN games : Len(games[g].moves) = 9 /\ resp.status = 400

\* a user id column holds user u (and is not NULL)
IsUser(id, u) == id # NoUser /\ id = u

(* C15: in a PvP game the first accepted O-turn move by a user other than  *)
(* the X owner makes that user the game's O player (user_o_id is set to    *)
(* that user), and from then on an O-turn move by any other user is        *)
(* rejected with Not your turn.                                            *)
C15_SecondPlayerBecomesO ==
    \A g \in DOMAIN games : \A u \in Users : \A p \in InCells :
        (/\ games[g].is_pvp
         /\ TurnByParity(games[g].moves) = "O"
         /\ u # games[g].user_x_id)
        => \A out \in make_move(games[g], u, p[1], p[2]) :
              /\ out.response.status = 200
                 => IsUser(commit(games, g, out)[g].user_o_id, u)
              /\ (/\ games[g].user_o_id # NoUser
                  /\ ~IsUser(games[g].user_o_id, u))
                 => out.response.status = 403

(* C16: when the turn is X, a make_move request of a user other than the   *)
(* game's X owner is rejected with Not your turn and leaves the persisted  *)
(* move list and winner unchanged; no request of such a user ever appends  *)
(* an X move, so every persisted X move was submitted by the X owner.      *)
C16_OnlyOwnerMovesAsX ==
    \A g \in DOMAIN games : \A u \in Users : \A p \in InCells :
        u # games[g].user_x_id
        => \A out \in make_move(games[g], u, p[1], p[2]) :
              /\ TurnByParity(games[g].moves) = "X"
                 => /\ out.response.status = 403
                    /\ out.response.detail = "Not your turn"
                    /\ commit(games, g, out) = games
              /\ LET after == commit(games, g, out)[g].moves
                 IN \A i \in Len(games[g].moves) + 1 .. Len(after) :
                       after[i].player # "X"

\* Not your turn was answered on a game with moves where the turn is X
C16_Witness ==
    \E g \in DOMAIN games :
        /\ resp.status = 403
        /\ Len(games[g].moves) >= 2
        /\ TurnByParity(games[g].moves) = "X"

----------------------------------------------------------------------------
(* main.py: user_stats (SpecStats)                                         *)

\* a user id column equals user_id; NULL equals no id
same_user(column, user_id) == column # NoUser /\ column = user_id

UserStats(username, games_played, wins, draws, losses) ==
    [status |-> 200, detail |-> "UserStats", username |-> username,
     games_played |-> games_played, wins |-> wins, draws |-> draws,
     losses |-> losses]

\* the symbol user_stats gives the user in game g (lines 277-281)
user_symbol(g, user_id) ==
    IF same_user(g.user_x_id, user_id) THEN "X"
    ELSE IF same_user(g.user_o_id, user_id) THEN "O"
    ELSE None

user_stats(table, user_id) ==
    LET mine == {id \in DOMAIN table :
                    \/ same_user(table[id].user_x_id, user_id)
                    \/ same_user(table[id].user_o_id, user_id)}
        won == {id \in mine :
                   table[id].winner = user_symbol(table[id], user_id)}
        drawn == {id \in mine \ won : table[id].winner = None}
        lost == {id \in (mine \ won) \ drawn : table[id].winner \in {"X", "O"}}
    IN UserStats(user_id, Cardinality(mine), Cardinality(won),
                 Cardinality(drawn), Cardinality(lost))

GetUserStats(current_user) ==
    /\ resp' = user_stats(games, current_user)
    /\ UNCHANGED <<games, reqs, fboard, fout>>

NextStats ==
    \/ Next
    \/ \E u \in Users : GetUserStats(u)

SpecStats == Init /\ [][NextStats]_vars

(* C17: the draws count user_stats returns for a user equals the number of *)
(* that user's games that ended in a draw, i.e. whose board rebuilt from   *)
(* the move list is full and has no winning line; games in progress are    *)
(* not counted.                                                            *)
DrawnGames(u) ==
    {g \in DOMAIN games :
        /\ IsUser(games[g].user_x_id, u) \/ IsUser(games[g].user_o_id, u)
        /\ IsFull(BoardOf(games[g].moves))
        /\ NoLine(BoardOf(games[g].moves))}

C17_DrawsAreDraws ==
    resp.detail = "UserStats"
    => resp.draws = Cardinality(DrawnGames(resp.username))


(* C18: once a make_move response for a game has reported is_over = TRUE   *)
(* (a winner exists or the board is full), every later make_move request   *)
(* on that game is rejected and the persisted move list stays unchanged.   *)
C18_OverGameRejectsMoves ==
    (resp.status = 200 /\ resp.is_over) =>
        \A g \in DOMAIN games : AllRejected(g)

(* C19: the persisted winner of a game is stable: once game.winner has     *)
(* been set to X or O by a make_move, no later make_move on that game sets *)
(* it to a different value.                                                *)
C19_WinnerStable ==
    [][\A g \in DOMAIN games :
           games[g].winner \in Symbols =>
               games'[g].winner = games[g].winner]_vars

====
